---- MODULE Spec2Model ----
(***************************************************************************)
(* Model of the pokervitoria server: the in-memory rooms store             *)
(* (state/roomsStore.js), the REST routes over it (routes/rooms.js) and    *)
(* the Socket.io gateway (realtime/socket.js).                             *)
(*                                                                         *)
(* Encodings.                                                              *)
(*  - crypto.randomUUID() is a counter: room ids are 1, 2, ... and         *)
(*    participant ids are 1, 2, ..., never reused.  Identifiers are        *)
(*    allocated in admission order, so id order is admission order.        *)
(*  - A string is a sequence of one-character strings; " " stands for the  *)
(*    whitespace class that String.prototype.trim strips.                  *)
(*  - A roomId payload is an integer: n >= 1 is the UUID string of room n, *)
(*    EmptyString (0) is "" and NotAString (-1) is undefined or any        *)
(*    non-string value.  A playerName payload is a character sequence, or  *)
(*    Undefined for a missing or non-string value.                         *)
(*  - socket.data.roomId / playerId hold 0 when the property is absent.    *)
(*  - createdAt / joinedAt timestamps are left out: nothing reads them.    *)
(***************************************************************************)
EXTENDS Integers, Sequences, FiniteSets, TLC

\* ---------------------------------------------------------------- bounds
MaxRooms == 2
MaxPlayers == 2
NumSockets == 2

Sockets == 1..NumSockets
RoomIds == 1..MaxRooms

EmptyString == 0
NotAString == 0 - 1
Undefined == <<"undefined">>

\* Payload values the clients send.
RoomIdPayloads == RoomIds \cup {EmptyString, NotAString}
PlayerNamePayloads ==
  { <<"A", "l">>, <<"a", "l">>, <<" ", "A", "l", " ">>, <<"B", "o">>,
    <<" ", "a">>, <<>>, Undefined }
RoomNamePayloads == { <<" ", "T", "a">>, <<"T">>, <<" ">>, <<>>, Undefined }

\* ---------------------------------------------------------------- strings
RECURSIVE trimStart(_)
trimStart(s) ==
  IF s # <<>> /\ Head(s) = " " THEN trimStart(Tail(s)) ELSE s

RECURSIVE trimEnd(_)
trimEnd(s) ==
  IF s # <<>> /\ s[Len(s)] = " " THEN trimEnd(SubSeq(s, 1, Len(s) - 1)) ELSE s

trim(s) == trimEnd(trimStart(s))

lowerChar(c) ==
  CASE c = "A" -> "a"
    [] c = "B" -> "b"
    [] c = "T" -> "t"
    [] OTHER -> c

toLowerCase(s) == [i \in 1..Len(s) |-> lowerChar(s[i])]

\* typeof x === "string" for a name payload, and JavaScript falsiness.
isStringName(x) == x # Undefined
falsyName(x) == x = Undefined \/ x = <<>>
isStringId(x) == x # NotAString
falsyId(x) == x = NotAString \/ x = EmptyString

\* ---------------------------------------------------------------- state
VARIABLES
  rooms,        \* the Map: room id -> [id, name, players]
  nextRoomId,   \* next UUID handed to createRoom
  nextPlayerId, \* next UUID handed to addPlayer
  sock,         \* per connection: status, socket.data, Socket.io groups
  admittedBy,   \* history: participant id -> admitting connection (0: REST)
  last          \* history: the event handled last, with what it emitted

vars == <<rooms, nextRoomId, nextPlayerId, sock, admittedBy, last>>

NoPlayer == [id |-> 0, name |-> <<>>]

\* ---------------------------------------------------------------- store
createRoom(rs, id, name) ==
  LET room == [id |-> id, name |-> trim(name), players |-> <<>>]
  IN  [rooms |-> [r \in DOMAIN rs \cup {id} |-> IF r = id THEN room ELSE rs[r]],
       room |-> room]

\* getRoom's null is the absence of the key.
hasRoom(rs, id) == id \in DOMAIN rs

nameTaken_FirstOnly(players, cleanName) ==
  /\ players # <<>>
  /\ toLowerCase(players[1].name) = toLowerCase(cleanName)

nameTaken(players, cleanName) ==
  \E i \in 1..Len(players) :
    toLowerCase(players[i].name) = toLowerCase(cleanName)

addPlayer_GlobalNames(rs, newId, roomId, playerName) ==
  IF ~hasRoom(rs, roomId)
  THEN [error |-> "ROOM_NOT_FOUND", rooms |-> rs, player |-> NoPlayer]
  ELSE
    LET cleanName == trim(playerName)
    IN  IF \E q \in DOMAIN rs : nameTaken(rs[q].players, cleanName)
        THEN [error |-> "NAME_TAKEN", rooms |-> rs, player |-> NoPlayer]
        ELSE
          LET player == [id |-> newId, name |-> cleanName]
          IN  [error |-> "", rooms |->
                 [rs EXCEPT ![roomId].players = Append(@, player)],
               player |-> player]

addPlayer_IndexId(rs, newId, roomId, playerName) ==
  IF ~hasRoom(rs, roomId)
  THEN [error |-> "ROOM_NOT_FOUND", rooms |-> rs, player |-> NoPlayer]
  ELSE
    LET cleanName == trim(playerName)
        player == [id |-> Len(rs[roomId].players) + 1, name |-> cleanName]
    IN  IF nameTaken(rs[roomId].players, cleanName)
        THEN [error |-> "NAME_TAKEN", rooms |-> rs, player |-> NoPlayer]
        ELSE [error |-> "",
              rooms |-> [rs EXCEPT ![roomId].players = Append(@, player)],
              player |-> player]

addPlayer_CaseSensitive(rs, newId, roomId, playerName) ==
  IF ~hasRoom(rs, roomId)
  THEN [error |-> "ROOM_NOT_FOUND", rooms |-> rs, player |-> NoPlayer]
  ELSE
    LET cleanName == trim(playerName)
        taken == \E i \in 1..Len(rs[roomId].players) :
                   rs[roomId].players[i].name = cleanName
        player == [id |-> newId, name |-> cleanName]
    IN  IF taken
        THEN [error |-> "NAME_TAKEN", rooms |-> rs, player |-> NoPlayer]
        ELSE [error |-> "",
              rooms |-> [rs EXCEPT ![roomId].players = Append(@, player)],
              player |-> player]

addPlayer_Unshift(rs, newId, roomId, playerName) ==
  IF ~hasRoom(rs, roomId)
  THEN [error |-> "ROOM_NOT_FOUND", rooms |-> rs, player |-> NoPlayer]
  ELSE
    LET cleanName == trim(playerName)
        player == [id |-> newId, name |-> cleanName]
    IN  IF nameTaken(rs[roomId].players, cleanName)
        THEN [error |-> "NAME_TAKEN", rooms |-> rs, player |-> NoPlayer]
        ELSE [error |-> "",
              rooms |-> [rs EXCEPT ![roomId].players = <<player>> \o @],
              player |-> player]

addPlayer_RawName(rs, newId, roomId, playerName) ==
  IF ~hasRoom(rs, roomId)
  THEN [error |-> "ROOM_NOT_FOUND", rooms |-> rs, player |-> NoPlayer]
  ELSE
    LET cleanName == trim(playerName)
        player == [id |-> newId, name |-> playerName]
    IN  IF nameTaken(rs[roomId].players, cleanName)
        THEN [error |-> "NAME_TAKEN", rooms |-> rs, player |-> NoPlayer]
        ELSE [error |-> "",
              rooms |-> [rs EXCEPT ![roomId].players = Append(@, player)],
              player |-> player]

addPlayer_AutoCreate(rs, newId, roomId, playerName) ==
  LET cleanName == trim(playerName)
      player == [id |-> newId, name |-> cleanName]
  IN  IF ~hasRoom(rs, roomId)
      THEN [error |-> "ROOM_NOT_FOUND",
            rooms |-> createRoom(rs, roomId, <<"T", "a">>).rooms,
            player |-> NoPlayer]
      ELSE IF nameTaken(rs[roomId].players, cleanName)
        THEN [error |-> "NAME_TAKEN", rooms |-> rs, player |-> NoPlayer]
        ELSE [error |-> "",
              rooms |-> [rs EXCEPT ![roomId].players = Append(@, player)],
              player |-> player]

\* newId is the value crypto.randomUUID() returns inside the call.
addPlayer(rs, newId, roomId, playerName) ==
  IF ~hasRoom(rs, roomId)
  THEN [error |-> "ROOM_NOT_FOUND", rooms |-> rs, player |-> NoPlayer]
  ELSE
    LET cleanName == trim(playerName)
        player == [id |-> newId, name |-> cleanName]
    IN  IF nameTaken(rs[roomId].players, cleanName)
        THEN [error |-> "NAME_TAKEN", rooms |-> rs, player |-> NoPlayer]
        ELSE [error |-> "",
              rooms |-> [rs EXCEPT ![roomId].players = Append(@, player)],
              player |-> player]

listPlayers_Stale(rs, roomId) ==
  IF ~hasRoom(rs, roomId)
  THEN [error |-> "ROOM_NOT_FOUND", players |-> <<>>]
  ELSE [error |-> "",
        players |-> IF rs[roomId].players = <<>> THEN <<>>
                    ELSE SubSeq(rs[roomId].players, 1,
                                Len(rs[roomId].players) - 1)]

listPlayers(rs, roomId) ==
  IF ~hasRoom(rs, roomId)
  THEN [error |-> "ROOM_NOT_FOUND", players |-> <<>>]
  ELSE [error |-> "", players |-> rs[roomId].players]

deleteRoom_Clear(rs, id) ==
  [rooms |-> IF id \in DOMAIN rs THEN <<>> ELSE rs, ok |-> id \in DOMAIN rs]

deleteRoom(rs, id) ==
  [rooms |-> [r \in DOMAIN rs \ {id} |-> rs[r]], ok |-> id \in DOMAIN rs]

\* Array.prototype.filter: keeps the elements passing the test, in order.
RECURSIVE filterOutId(_, _)
filterOutId(players, playerId) ==
  IF players = <<>> THEN <<>>
  ELSE IF Head(players).id # playerId
       THEN <<Head(players)>> \o filterOutId(Tail(players), playerId)
       ELSE filterOutId(Tail(players), playerId)

removePlayer_DeleteEmpty(rs, roomId, playerId) ==
  IF ~hasRoom(rs, roomId) THEN [rooms |-> rs, changed |-> FALSE]
  ELSE
    LET before == Len(rs[roomId].players)
        after == filterOutId(rs[roomId].players, playerId)
    IN  [rooms |-> IF after = <<>>
                   THEN [r \in DOMAIN rs \ {roomId} |-> rs[r]]
                   ELSE [rs EXCEPT ![roomId].players = after],
         changed |-> Len(after) # before]

removePlayer_DropFirst(rs, roomId, playerId) ==
  IF ~hasRoom(rs, roomId) THEN [rooms |-> rs, changed |-> FALSE]
  ELSE
    LET before == Len(rs[roomId].players)
        after == IF rs[roomId].players = <<>> THEN <<>>
                 ELSE Tail(rs[roomId].players)
    IN  [rooms |-> [rs EXCEPT ![roomId].players = after],
         changed |-> Len(after) # before]

removePlayer(rs, roomId, playerId) ==
  IF ~hasRoom(rs, roomId) THEN [rooms |-> rs, changed |-> FALSE]
  ELSE
    LET before == Len(rs[roomId].players)
        after == filterOutId(rs[roomId].players, playerId)
    IN  [rooms |-> [rs EXCEPT ![roomId].players = after],
         changed |-> Len(after) # before]

\* ---------------------------------------------------------------- events
\* What a handler emits: socket.emit goes to {s}, io.to(roomId).emit goes to
\* the connections that are in the Socket.io group roomId at that moment.
subscribers(sk, roomId) == {c \in Sockets : roomId \in sk[c].groups}

errorEvent(s, error, details) ==
  [ev |-> "error", to |-> {s}, roomId |-> 0, player |-> NoPlayer,
   players |-> <<>>, error |-> error, details |-> details]

joinedEvent(s, roomId, player) ==
  [ev |-> "room:joined", to |-> {s}, roomId |-> roomId, player |-> player,
   players |-> <<>>, error |-> "", details |-> ""]

leftEvent(s, roomId) ==
  [ev |-> "room:left", to |-> {s}, roomId |-> roomId, player |-> NoPlayer,
   players |-> <<>>, error |-> "", details |-> ""]

playersEvent(sk, roomId, players) ==
  [ev |-> "room:players", to |-> subscribers(sk, roomId), roomId |-> roomId,
   player |-> NoPlayer, players |-> players, error |-> "", details |-> ""]

\* ---------------------------------------------------------------- gateway
\* Each handler is a function of the state it runs in; it runs to completion
\* (Node's event loop), so one handler is one step.
badPlayerName(playerName) ==
  falsyName(playerName) \/ ~isStringName(playerName)
    \/ Len(trim(playerName)) < 2

roomJoin_PublishBeforeSubscribe(rs, sk, newId, s, roomId, playerName) ==
  IF falsyId(roomId) \/ ~isStringId(roomId)
  THEN [rooms |-> rs, sock |-> sk, player |-> NoPlayer,
        out |-> <<errorEvent(s, "Bad Request", "roomId required")>>]
  ELSE IF badPlayerName(playerName)
  THEN [rooms |-> rs, sock |-> sk, player |-> NoPlayer,
        out |-> <<errorEvent(s, "Bad Request",
                             "playerName required (min 2 chars)")>>]
  ELSE
    LET result == addPlayer(rs, newId, roomId, playerName)
    IN  IF result.error = "ROOM_NOT_FOUND"
        THEN [rooms |-> result.rooms, sock |-> sk, player |-> NoPlayer,
              out |-> <<errorEvent(s, "Room not found", "")>>]
        ELSE IF result.error = "NAME_TAKEN"
        THEN [rooms |-> result.rooms, sock |-> sk, player |-> NoPlayer,
              out |-> <<errorEvent(s, "Name taken", "")>>]
        ELSE
          LET sk1 == [sk EXCEPT ![s].groups = @ \cup {roomId},
                                ![s].roomId = roomId,
                                ![s].playerId = result.player.id]
              playersResult == listPlayers(result.rooms, roomId)
          IN  [rooms |-> result.rooms, sock |-> sk1,
               player |-> result.player,
               out |-> <<joinedEvent(s, roomId, result.player),
                         playersEvent(sk, roomId, playersResult.players)>>]

roomJoin_ValidateLate(rs, sk, newId, s, roomId, playerName) ==
  IF falsyId(roomId) \/ ~isStringId(roomId)
  THEN [rooms |-> rs, sock |-> sk, player |-> NoPlayer,
        out |-> <<errorEvent(s, "Bad Request", "roomId required")>>]
  ELSE IF ~isStringName(playerName)
  THEN [rooms |-> rs, sock |-> sk, player |-> NoPlayer,
        out |-> <<errorEvent(s, "Bad Request",
                             "playerName required (min 2 chars)")>>]
  ELSE
    LET result == addPlayer(rs, newId, roomId, playerName)
    IN  IF result.error = "ROOM_NOT_FOUND"
        THEN [rooms |-> result.rooms, sock |-> sk, player |-> NoPlayer,
              out |-> <<errorEvent(s, "Room not found", "")>>]
        ELSE IF result.error = "NAME_TAKEN"
        THEN [rooms |-> result.rooms, sock |-> sk, player |-> NoPlayer,
              out |-> <<errorEvent(s, "Name taken", "")>>]
        ELSE IF badPlayerName(playerName)
        THEN [rooms |-> result.rooms, sock |-> sk, player |-> NoPlayer,
              out |-> <<errorEvent(s, "Bad Request",
                                   "playerName required (min 2 chars)")>>]
        ELSE
          LET sk1 == [sk EXCEPT ![s].groups = @ \cup {roomId},
                                ![s].roomId = roomId,
                                ![s].playerId = result.player.id]
              playersResult == listPlayers(result.rooms, roomId)
          IN  [rooms |-> result.rooms, sock |-> sk1,
               player |-> result.player,
               out |-> <<joinedEvent(s, roomId, result.player),
                         playersEvent(sk1, roomId, playersResult.players)>>]

roomJoin_SubscribeEarly(rs, sk, newId, s, roomId, playerName) ==
  IF falsyId(roomId) \/ ~isStringId(roomId)
  THEN [rooms |-> rs, sock |-> sk, player |-> NoPlayer,
        out |-> <<errorEvent(s, "Bad Request", "roomId required")>>]
  ELSE IF badPlayerName(playerName)
  THEN [rooms |-> rs, sock |-> sk, player |-> NoPlayer,
        out |-> <<errorEvent(s, "Bad Request",
                             "playerName required (min 2 chars)")>>]
  ELSE
    LET result == addPlayer(rs, newId, roomId, playerName)
        sk0 == [sk EXCEPT ![s].groups = @ \cup {roomId}]
    IN  IF result.error = "ROOM_NOT_FOUND"
        THEN [rooms |-> result.rooms, sock |-> sk0, player |-> NoPlayer,
              out |-> <<errorEvent(s, "Room not found", "")>>]
        ELSE IF result.error = "NAME_TAKEN"
        THEN [rooms |-> result.rooms, sock |-> sk0, player |-> NoPlayer,
              out |-> <<errorEvent(s, "Name taken", "")>>]
        ELSE
          LET sk1 == [sk0 EXCEPT ![s].roomId = roomId,
                                 ![s].playerId = result.player.id]
              playersResult == listPlayers(result.rooms, roomId)
          IN  [rooms |-> result.rooms, sock |-> sk1,
               player |-> result.player,
               out |-> <<joinedEvent(s, roomId, result.player),
                         playersEvent(sk1, roomId, playersResult.players)>>]

roomJoin(rs, sk, newId, s, roomId, playerName) ==
  IF falsyId(roomId) \/ ~isStringId(roomId)
  THEN [rooms |-> rs, sock |-> sk, player |-> NoPlayer,
        out |-> <<errorEvent(s, "Bad Request", "roomId required")>>]
  ELSE IF badPlayerName(playerName)
  THEN [rooms |-> rs, sock |-> sk, player |-> NoPlayer,
        out |-> <<errorEvent(s, "Bad Request",
                             "playerName required (min 2 chars)")>>]
  ELSE
    LET result == addPlayer(rs, newId, roomId, playerName)
    IN  IF result.error = "ROOM_NOT_FOUND"
        THEN [rooms |-> result.rooms, sock |-> sk, player |-> NoPlayer,
              out |-> <<errorEvent(s, "Room not found", "")>>]
        ELSE IF result.error = "NAME_TAKEN"
        THEN [rooms |-> result.rooms, sock |-> sk, player |-> NoPlayer,
              out |-> <<errorEvent(s, "Name taken", "")>>]
        ELSE
          LET sk1 == [sk EXCEPT ![s].groups = @ \cup {roomId},
                                ![s].roomId = roomId,
                                ![s].playerId = result.player.id]
              playersResult == listPlayers(result.rooms, roomId)
          IN  [rooms |-> result.rooms, sock |-> sk1,
               player |-> result.player,
               out |-> <<joinedEvent(s, roomId, result.player),
                         playersEvent(sk1, roomId, playersResult.players)>>]

roomLeave_LeftFirst(rs, sk, s) ==
  LET roomId == sk[s].roomId
      playerId == sk[s].playerId
  IN  IF roomId = 0 \/ playerId = 0
      THEN [rooms |-> rs, sock |-> sk, out |-> <<>>]
      ELSE
        LET removed == removePlayer(rs, roomId, playerId)
            sk1 == [sk EXCEPT ![s].groups = @ \ {roomId},
                              ![s].roomId = 0,
                              ![s].playerId = 0]
            playersResult == listPlayers(removed.rooms, roomId)
        IN  [rooms |-> removed.rooms, sock |-> sk1,
             out |-> <<leftEvent(s, roomId)>>
                     \o (IF playersResult.error = ""
                         THEN <<playersEvent(sk1, roomId,
                                             playersResult.players)>>
                         ELSE <<>>)]

roomLeave_PublishFirst(rs, sk, s) ==
  LET roomId == sk[s].roomId
      playerId == sk[s].playerId
  IN  IF roomId = 0 \/ playerId = 0
      THEN [rooms |-> rs, sock |-> sk, out |-> <<>>]
      ELSE
        LET removed == removePlayer(rs, roomId, playerId)
            sk1 == [sk EXCEPT ![s].groups = @ \ {roomId},
                              ![s].roomId = 0,
                              ![s].playerId = 0]
            playersResult == listPlayers(removed.rooms, roomId)
        IN  [rooms |-> removed.rooms, sock |-> sk1,
             out |-> (IF playersResult.error = ""
                      THEN <<playersEvent(sk, roomId, playersResult.players)>>
                      ELSE <<>>)
                     \o <<leftEvent(s, roomId)>>]

roomLeave_KeepBinding(rs, sk, s) ==
  LET roomId == sk[s].roomId
      playerId == sk[s].playerId
  IN  IF roomId = 0 \/ playerId = 0
      THEN [rooms |-> rs, sock |-> sk, out |-> <<>>]
      ELSE
        LET removed == removePlayer(rs, roomId, playerId)
            sk1 == [sk EXCEPT ![s].groups = @ \ {roomId}]
            playersResult == listPlayers(removed.rooms, roomId)
        IN  [rooms |-> removed.rooms, sock |-> sk1,
             out |-> (IF playersResult.error = ""
                      THEN <<playersEvent(sk1, roomId, playersResult.players)>>
                      ELSE <<>>)
                     \o <<leftEvent(s, roomId)>>]

roomLeave(rs, sk, s) ==
  LET roomId == sk[s].roomId
      playerId == sk[s].playerId
  IN  IF roomId = 0 \/ playerId = 0
      THEN [rooms |-> rs, sock |-> sk, out |-> <<>>]
      ELSE
        LET removed == removePlayer(rs, roomId, playerId)
            sk1 == [sk EXCEPT ![s].groups = @ \ {roomId},
                              ![s].roomId = 0,
                              ![s].playerId = 0]
            playersResult == listPlayers(removed.rooms, roomId)
        IN  [rooms |-> removed.rooms, sock |-> sk1,
             out |-> (IF playersResult.error = ""
                      THEN <<playersEvent(sk1, roomId, playersResult.players)>>
                      ELSE <<>>)
                     \o <<leftEvent(s, roomId)>>]

disconnect_BroadcastAlways(rs, sk, s) ==
  LET roomId == sk[s].roomId
      playerId == sk[s].playerId
      sk1 == [sk EXCEPT ![s].groups = {}, ![s].status = "closed"]
  IN  IF roomId = 0 \/ playerId = 0
      THEN [rooms |-> rs, sock |-> sk1, out |-> <<>>]
      ELSE
        LET removed == removePlayer(rs, roomId, playerId)
            playersResult == listPlayers(removed.rooms, roomId)
        IN  [rooms |-> removed.rooms, sock |-> sk1,
             out |-> <<playersEvent(sk1, roomId, playersResult.players)>>]

disconnect_NoBroadcast(rs, sk, s) ==
  LET roomId == sk[s].roomId
      playerId == sk[s].playerId
      sk1 == [sk EXCEPT ![s].groups = {}, ![s].status = "closed"]
  IN  IF roomId = 0 \/ playerId = 0
      THEN [rooms |-> rs, sock |-> sk1, out |-> <<>>]
      ELSE [rooms |-> removePlayer(rs, roomId, playerId).rooms,
            sock |-> sk1, out |-> <<>>]

disconnect_NoRemove(rs, sk, s) ==
  LET roomId == sk[s].roomId
      playerId == sk[s].playerId
      sk1 == [sk EXCEPT ![s].groups = {}, ![s].status = "closed"]
  IN  IF roomId = 0 \/ playerId = 0
      THEN [rooms |-> rs, sock |-> sk1, out |-> <<>>]
      ELSE
        LET playersResult == listPlayers(rs, roomId)
        IN  [rooms |-> rs, sock |-> sk1,
             out |-> IF playersResult.error = ""
                     THEN <<playersEvent(sk1, roomId, playersResult.players)>>
                     ELSE <<>>]

\* Socket.io takes a closing socket out of all its groups before it fires
\* "disconnect"; the handler leaves socket.data as it was.
disconnect(rs, sk, s) ==
  LET roomId == sk[s].roomId
      playerId == sk[s].playerId
      sk1 == [sk EXCEPT ![s].groups = {}, ![s].status = "closed"]
  IN  IF roomId = 0 \/ playerId = 0
      THEN [rooms |-> rs, sock |-> sk1, out |-> <<>>]
      ELSE
        LET removed == removePlayer(rs, roomId, playerId)
            playersResult == listPlayers(removed.rooms, roomId)
        IN  [rooms |-> removed.rooms, sock |-> sk1,
             out |-> IF playersResult.error = ""
                     THEN <<playersEvent(sk1, roomId, playersResult.players)>>
                     ELSE <<>>]

\* ---------------------------------------------------------------- routes
badRoomName(name) ==
  name = Undefined \/ name = <<>> \/ Len(trim(name)) < 2

postRooms_NoValidate(rs, newId, name) ==
  IF name = Undefined
  THEN [rooms |-> rs, status |-> 400]
  ELSE [rooms |-> createRoom(rs, newId, name).rooms, status |-> 201]

postRooms(rs, newId, name) ==
  IF badRoomName(name)
  THEN [rooms |-> rs, status |-> 400]
  ELSE [rooms |-> createRoom(rs, newId, name).rooms, status |-> 201]

postJoin_LookupFirst(rs, newId, id, playerName) ==
  IF ~isStringName(playerName)
  THEN [rooms |-> rs, status |-> 400, player |-> NoPlayer]
  ELSE
    LET result == addPlayer(rs, newId, id, playerName)
    IN  IF result.error = "ROOM_NOT_FOUND"
        THEN [rooms |-> result.rooms, status |-> 404, player |-> NoPlayer]
        ELSE IF result.error = "NAME_TAKEN"
        THEN [rooms |-> result.rooms, status |-> 409, player |-> NoPlayer]
        ELSE IF badPlayerName(playerName)
        THEN [rooms |-> rs, status |-> 400, player |-> NoPlayer]
        ELSE [rooms |-> result.rooms, status |-> 201,
              player |-> result.player]

postJoin(rs, newId, id, playerName) ==
  IF badPlayerName(playerName)
  THEN [rooms |-> rs, status |-> 400, player |-> NoPlayer]
  ELSE
    LET result == addPlayer(rs, newId, id, playerName)
    IN  IF result.error = "ROOM_NOT_FOUND"
        THEN [rooms |-> result.rooms, status |-> 404, player |-> NoPlayer]
        ELSE IF result.error = "NAME_TAKEN"
        THEN [rooms |-> result.rooms, status |-> 409, player |-> NoPlayer]
        ELSE [rooms |-> result.rooms, status |-> 201,
              player |-> result.player]

deleteRooms(rs, id) ==
  LET d == deleteRoom(rs, id)
  IN  [rooms |-> d.rooms, status |-> IF d.ok THEN 204 ELSE 404]

\* ---------------------------------------------------------------- system
Init ==
  /\ rooms = <<>>
  /\ nextRoomId = 1
  /\ nextPlayerId = 1
  /\ sock = [s \in Sockets |->
               [status |-> "new", roomId |-> 0, playerId |-> 0, groups |-> {}]]
  /\ admittedBy = <<>>
  /\ last = [op |-> "init", s |-> 0, out |-> <<>>, status |-> 0]

Connect(s) ==
  /\ sock[s].status = "new"
  /\ sock' = [sock EXCEPT ![s].status = "open"]
  /\ last' = [op |-> "connection", s |-> s, out |-> <<>>, status |-> 0]
  /\ UNCHANGED <<rooms, nextRoomId, nextPlayerId, admittedBy>>

RoomJoin(s, roomId, playerName) ==
  LET r == roomJoin(rooms, sock, nextPlayerId, s, roomId, playerName)
  IN  /\ sock[s].status = "open"
      /\ r.player # NoPlayer => nextPlayerId <= MaxPlayers
      /\ rooms' = r.rooms
      /\ sock' = r.sock
      /\ nextPlayerId' = IF r.player # NoPlayer THEN nextPlayerId + 1
                         ELSE nextPlayerId
      /\ admittedBy' = IF r.player # NoPlayer THEN Append(admittedBy, s)
                       ELSE admittedBy
      /\ last' = [op |-> "room:join", s |-> s, out |-> r.out, status |-> 0]
      /\ UNCHANGED nextRoomId

RoomLeave(s) ==
  LET r == roomLeave(rooms, sock, s)
  IN  /\ sock[s].status = "open"
      /\ rooms' = r.rooms
      /\ sock' = r.sock
      /\ last' = [op |-> "room:leave", s |-> s, out |-> r.out, status |-> 0]
      /\ UNCHANGED <<nextRoomId, nextPlayerId, admittedBy>>

Disconnect(s) ==
  LET r == disconnect(rooms, sock, s)
  IN  /\ sock[s].status = "open"
      /\ rooms' = r.rooms
      /\ sock' = r.sock
      /\ last' = [op |-> "disconnect", s |-> s, out |-> r.out, status |-> 0]
      /\ UNCHANGED <<nextRoomId, nextPlayerId, admittedBy>>

PostRooms(name) ==
  LET r == postRooms(rooms, nextRoomId, name)
  IN  /\ r.status = 201 => nextRoomId <= MaxRooms
      /\ rooms' = r.rooms
      /\ nextRoomId' = IF r.status = 201 THEN nextRoomId + 1 ELSE nextRoomId
      /\ last' = [op |-> "POST /rooms", s |-> 0, out |-> <<>>,
                  status |-> r.status]
      /\ UNCHANGED <<nextPlayerId, sock, admittedBy>>

PostJoin_Broadcast(id, playerName) ==
  LET r == postJoin(rooms, nextPlayerId, id, playerName)
  IN  /\ r.status = 201 => nextPlayerId <= MaxPlayers
      /\ rooms' = r.rooms
      /\ nextPlayerId' = IF r.status = 201 THEN nextPlayerId + 1
                         ELSE nextPlayerId
      /\ admittedBy' = IF r.status = 201 THEN Append(admittedBy, 0)
                       ELSE admittedBy
      /\ last' = [op |-> "POST /rooms/:id/join", s |-> 0,
                  out |-> IF r.status = 201
                          THEN <<playersEvent(sock, id, r.rooms[id].players)>>
                          ELSE <<>>,
                  status |-> r.status]
      /\ UNCHANGED <<nextRoomId, sock>>

PostJoin(id, playerName) ==
  LET r == postJoin(rooms, nextPlayerId, id, playerName)
  IN  /\ r.status = 201 => nextPlayerId <= MaxPlayers
      /\ rooms' = r.rooms
      /\ nextPlayerId' = IF r.status = 201 THEN nextPlayerId + 1
                         ELSE nextPlayerId
      /\ admittedBy' = IF r.status = 201 THEN Append(admittedBy, 0)
                       ELSE admittedBy
      /\ last' = [op |-> "POST /rooms/:id/join", s |-> 0, out |-> <<>>,
                  status |-> r.status]
      /\ UNCHANGED <<nextRoomId, sock>>

DeleteRooms(id) ==
  LET r == deleteRooms(rooms, id)
  IN  /\ rooms' = r.rooms
      /\ last' = [op |-> "DELETE /rooms/:id", s |-> 0, out |-> <<>>,
                  status |-> r.status]
      /\ UNCHANGED <<nextRoomId, nextPlayerId, sock, admittedBy>>

Next ==
  \/ \E s \in Sockets : Connect(s)
  \/ \E s \in Sockets, roomId \in RoomIdPayloads,
        playerName \in PlayerNamePayloads : RoomJoin(s, roomId, playerName)
  \/ \E s \in Sockets : RoomLeave(s)
  \/ \E s \in Sockets : Disconnect(s)
  \/ \E name \in RoomNamePayloads : PostRooms(name)
  \/ \E id \in RoomIds, playerName \in PlayerNamePayloads :
        PostJoin(id, playerName)
  \/ \E id \in RoomIds : DeleteRooms(id)

Spec == Init /\ [][Next]_vars

\* ================================================================ claims
live(s) == sock[s].status = "open"
bound(s) == sock[s].roomId # 0 /\ sock[s].playerId # 0
isMember(rs, roomId, playerId) ==
  hasRoom(rs, roomId)
    /\ \E i \in 1..Len(rs[roomId].players) : rs[roomId].players[i].id = playerId
ValidNames == {n \in PlayerNamePayloads : ~badPlayerName(n)}
\* Two names are the same name when they agree after lower-casing.
sameName(a, b) == toLowerCase(a) = toLowerCase(b)
collides(rs, roomId, n) ==
  \E i \in 1..Len(rs[roomId].players) :
    sameName(rs[roomId].players[i].name, trim(n))
uniqueNames(rs) ==
  \A r \in DOMAIN rs : \A i, j \in 1..Len(rs[r].players) :
    i # j => ~sameName(rs[r].players[i].name, rs[r].players[j].name)
\* Identifiers are handed out in admission order.
joinOrder(players) ==
  \A i, j \in 1..Len(players) : i < j => players[i].id < players[j].id
isPlayersEvent(e) == e.ev = "room:players"

\* C1: no room ever holds two members whose names are equal ignoring case;
\* this holds of the registry and of the registry any further admission
\* (REST or room:join, both through addPlayer) would produce.
C1_UniqueNamesPerRoom ==
  /\ uniqueNames(rooms)
  /\ \A roomId \in RoomIds, n \in ValidNames :
       uniqueNames(addPlayer(rooms, nextPlayerId, roomId, n).rooms)

C1_Witness ==
  \E r \in DOMAIN rooms :
    /\ Len(rooms[r].players) = 2
    /\ admittedBy[rooms[r].players[1].id] = 0
    /\ admittedBy[rooms[r].players[2].id] # 0

\* C2: the room:players snapshot a room:join or room:leave emits names the
\* room the handler acted on and lists exactly that room's member sequence as
\* it is when the handler finishes; a successful join and a leave from a room
\* that still exists do emit it.
C2_SnapshotEqualsRegistry ==
  /\ \A i \in 1..Len(last.out) :
       isPlayersEvent(last.out[i]) =>
         /\ hasRoom(rooms, last.out[i].roomId)
         /\ last.out[i].players = rooms[last.out[i].roomId].players
  /\ (last.op = "room:join" /\ last.out # <<>>
        /\ last.out[1].ev = "room:joined") =>
       /\ Len(last.out) = 2
       /\ isPlayersEvent(last.out[2])
       /\ last.out[2].roomId = last.out[1].roomId
  /\ (last.op = "room:leave" /\ last.out # <<>>
        /\ hasRoom(rooms, last.out[Len(last.out)].roomId)) =>
       /\ Len(last.out) = 2
       /\ isPlayersEvent(last.out[1])
       /\ last.out[1].roomId = last.out[2].roomId

C2_Witness ==
  /\ last.op = "room:leave"
  /\ Len(last.out) = 2
  /\ Len(last.out[1].players) = 1

\* C3: every live connection's session binding names a room that exists and
\* a participant that is a member of that room.
C3_BindingsNeverDangle ==
  \A s \in Sockets :
    (live(s) /\ (sock[s].roomId # 0 \/ sock[s].playerId # 0)) =>
      isMember(rooms, sock[s].roomId, sock[s].playerId)

\* C4: every participant admitted by a room:join and still a member of a room
\* is held by the binding of exactly one live connection.
C4_ExactlyOneBindingPerParticipant ==
  \A r \in DOMAIN rooms : \A i \in 1..Len(rooms[r].players) :
    admittedBy[rooms[r].players[i].id] # 0 =>
      Cardinality({s \in Sockets :
                     live(s) /\ sock[s].playerId = rooms[r].players[i].id}) = 1

\* C5: for a bound connection, disconnect leaves the registry exactly as
\* room:leave would, and nothing a disconnect emits is addressed to the
\* closing connection: it emits room:players broadcasts only.
C5_DisconnectEqualsLeave ==
  /\ \A s \in Sockets :
       (live(s) /\ bound(s)) =>
         /\ disconnect(rooms, sock, s).rooms = roomLeave(rooms, sock, s).rooms
         /\ \A i \in 1..Len(disconnect(rooms, sock, s).out) :
              /\ isPlayersEvent(disconnect(rooms, sock, s).out[i])
              /\ s \notin disconnect(rooms, sock, s).out[i].to
  /\ last.op = "disconnect" =>
       \A i \in 1..Len(last.out) :
         isPlayersEvent(last.out[i]) /\ last.s \notin last.out[i].to

C5_Witness ==
  /\ last.op = "disconnect"
  /\ last.out # <<>>
  /\ sock[last.s].roomId # 0
  /\ ~isMember(rooms, sock[last.s].roomId, sock[last.s].playerId)

\* C6: addPlayer into an existing room with a name of trimmed length >= 2
\* that no member holds (ignoring case) succeeds; the participant's name is
\* the trimmed input, its id was never allocated before, and the room's
\* member sequence is the previous one with that participant appended, the
\* other rooms being as they were.
C6_AdmitValidUnusedName ==
  \A roomId \in DOMAIN rooms, n \in ValidNames :
    ~collides(rooms, roomId, n) =>
      LET r == addPlayer(rooms, nextPlayerId, roomId, n)
      IN  /\ r.error = ""
          /\ r.player.name = trim(n)
          /\ r.player.id \notin 1..Len(admittedBy)
          /\ \A q \in DOMAIN rooms : \A i \in 1..Len(rooms[q].players) :
               rooms[q].players[i].id # r.player.id
          /\ DOMAIN r.rooms = DOMAIN rooms
          /\ r.rooms[roomId].players = Append(rooms[roomId].players, r.player)
          /\ \A q \in DOMAIN rooms \ {roomId} : r.rooms[q] = rooms[q]

C6_Witness ==
  /\ last.op = "POST /rooms/:id/join"
  /\ last.status = 201
  /\ \E r \in DOMAIN rooms :
       /\ Len(rooms[r].players) = 2
       /\ rooms[r].players[2].name = <<"A", "l">>

C8_RemoveIdempotent ==
  \A roomId \in RoomIds, playerId \in 1..(MaxPlayers + 1) :
    LET first == removePlayer(rooms, roomId, playerId)
        second == removePlayer(first.rooms, roomId, playerId)
    IN  /\ first.changed <=> isMember(rooms, roomId, playerId)
        /\ ~first.changed => first.rooms = rooms
        /\ first.changed => ~isMember(first.rooms, roomId, playerId)
        /\ ~second.changed
        /\ second.rooms = first.rooms

C8_Witness ==
  /\ last.op = "room:leave"
  /\ Len(last.out) = 2
  /\ \E r \in DOMAIN rooms : Len(rooms[r].players) = 1
  /\ \E r \in RoomIds : ~hasRoom(rooms, r)

\* C9: joining an existing room under a name a member already holds (after
\* trimming, ignoring case) fails with NAME_TAKEN: REST answers 409, the
\* gateway emits only the private error 'Name taken', and the registry, the
\* connection's binding and its subscriptions stay as they were.
C9_NameTakenChangesNothing ==
  \A roomId \in DOMAIN rooms, n \in PlayerNamePayloads \ {Undefined} :
    collides(rooms, roomId, n) =>
      /\ addPlayer(rooms, nextPlayerId, roomId, n).error = "NAME_TAKEN"
      /\ postJoin(rooms, nextPlayerId, roomId, n).status = 409
      /\ postJoin(rooms, nextPlayerId, roomId, n).rooms = rooms
      /\ \A s \in Sockets :
           live(s) =>
             LET r == roomJoin(rooms, sock, nextPlayerId, s, roomId, n)
             IN  /\ r.out = <<errorEvent(s, "Name taken", "")>>
                 /\ r.rooms = rooms
                 /\ r.sock = sock

C9_Witness ==
  /\ last.op = "room:join"
  /\ last.out = <<errorEvent(last.s, "Name taken", "")>>
  /\ \E r \in DOMAIN rooms :
       Len(rooms[r].players) = 1 /\ rooms[r].players[1].name = <<"A", "l">>
  /\ ~bound(last.s)

\* C10 (as stated): a room:join naming a room that is not in the registry
\* emits only the private error 'Room not found', changes neither the
\* registry nor the sender's binding, emits no broadcast, and the sender is
\* subscribed to no broadcast group.
C10_RoomNotFoundSenderInNoGroup ==
  /\ \A s \in Sockets, roomId \in RoomIds \ DOMAIN rooms, n \in ValidNames :
       live(s) =>
         LET r == roomJoin(rooms, sock, nextPlayerId, s, roomId, n)
         IN  /\ r.out = <<errorEvent(s, "Room not found", "")>>
             /\ r.rooms = rooms
             /\ r.sock[s].roomId = sock[s].roomId
             /\ r.sock[s].playerId = sock[s].playerId
  /\ (last.op = "room:join"
        /\ last.out = <<errorEvent(last.s, "Room not found", "")>>) =>
       sock[last.s].groups = {}

\* C10 (amended): a room:join with a valid playerName naming a room that is
\* not in the registry emits only the private error 'Room not found'; the
\* registry, every connection's binding and every connection's subscriptions
\* are unchanged (the handler subscribes the sender to nothing), and no
\* broadcast is emitted.
C10_RoomNotFoundChangesNothing ==
  \A s \in Sockets, roomId \in RoomIds \ DOMAIN rooms, n \in ValidNames :
    live(s) =>
      LET r == roomJoin(rooms, sock, nextPlayerId, s, roomId, n)
      IN  /\ r.out = <<errorEvent(s, "Room not found", "")>>
          /\ r.rooms = rooms
          /\ r.sock = sock
          /\ r.player = NoPlayer

C10_Witness ==
  /\ last.op = "room:join"
  /\ last.out = <<errorEvent(last.s, "Room not found", "")>>
  /\ bound(last.s)
  /\ sock[last.s].groups # {}
  /\ rooms # <<>>

\* C11: a room:join whose roomId is missing, empty or not a string, or whose
\* playerName is missing, not a string or shorter than 2 characters after
\* trimming, emits only a private 'Bad Request' error and changes neither
\* the registry nor any connection's binding or subscriptions.
isBadRequest(out, s) ==
  /\ Len(out) = 1
  /\ out[1].ev = "error"
  /\ out[1].error = "Bad Request"
  /\ out[1].to = {s}

malformed(roomId, n) ==
  \/ roomId \in {EmptyString, NotAString}
  \/ n = Undefined
  \/ Len(trim(n)) < 2

C11_BadRequestChangesNothing ==
  \A s \in Sockets, roomId \in RoomIdPayloads, n \in PlayerNamePayloads :
    (live(s) /\ malformed(roomId, n)) =>
      LET r == roomJoin(rooms, sock, nextPlayerId, s, roomId, n)
      IN  /\ isBadRequest(r.out, s)
          /\ r.rooms = rooms
          /\ r.sock = sock
          /\ r.player = NoPlayer

C11_Witness ==
  /\ last.op = "room:join"
  /\ isBadRequest(last.out, last.s)
  /\ bound(last.s)
  /\ isMember(rooms, sock[last.s].roomId, sock[last.s].playerId)

\* C12: room:leave and disconnect on a connection without a binding change
\* nothing in the registry and emit nothing; so for a connection bound to a
\* member of an existing room, room:leave followed by disconnect removes
\* exactly one member and emits exactly one room:players broadcast, both
\* by the leave.
countPlayersEvents(out) ==
  Cardinality({i \in 1..Len(out) : isPlayersEvent(out[i])})

C14_EmptyRoomNameRejected ==
  /\ \A name \in RoomNamePayloads \ {Undefined} :
       trim(name) = <<>> =>
         /\ postRooms(rooms, nextRoomId, name).status = 400
         /\ postRooms(rooms, nextRoomId, name).rooms = rooms
  /\ \A r \in DOMAIN rooms :
       /\ rooms[r].name # <<>>
       /\ Head(rooms[r].name) # " "
       /\ rooms[r].name[Len(rooms[r].name)] # " "

C14_Witness ==
  /\ last.op = "POST /rooms"
  /\ last.status = 400
  /\ \E r \in DOMAIN rooms : rooms[r].name = <<"T", "a">>

\* C15: a join whose name is missing or shorter than 2 characters after
\* trimming gets the validation outcome (400 / 'Bad Request'), never
\* RoomNotFound, whether or not the room exists, and admits nobody; no member
\* of any room has a name shorter than 2 characters.
tooShort(n) == n = Undefined \/ Len(trim(n)) < 2

C15_ShortNameRejectedBeforeLookup ==
  /\ \A id \in RoomIds, n \in PlayerNamePayloads :
       tooShort(n) =>
         /\ postJoin(rooms, nextPlayerId, id, n).status = 400
         /\ postJoin(rooms, nextPlayerId, id, n).rooms = rooms
         /\ \A s \in Sockets :
              live(s) =>
                /\ isBadRequest(roomJoin(rooms, sock, nextPlayerId, s, id, n).out, s)
                /\ roomJoin(rooms, sock, nextPlayerId, s, id, n).rooms = rooms
  /\ \A r \in DOMAIN rooms : \A i \in 1..Len(rooms[r].players) :
       Len(rooms[r].players[i].name) >= 2

C15_Witness ==
  /\ last.op = "POST /rooms/:id/join"
  /\ last.status = 400
  /\ DOMAIN rooms = {1}
  /\ nextRoomId = 2
  /\ rooms[1].players # <<>>

\* C16: deleteRoom on an id that is not in the registry returns false and
\* changes nothing; on an existing id it returns true and removes that room
\* and no other; a second deleteRoom of the same id returns false.  The route
\* answers 204 for true and 404 for false.
C16_DeleteRoomIdempotent ==
  \A id \in RoomIds :
    LET first == deleteRoom(rooms, id)
        second == deleteRoom(first.rooms, id)
    IN  /\ first.ok <=> hasRoom(rooms, id)
        /\ ~first.ok => first.rooms = rooms
        /\ DOMAIN first.rooms = DOMAIN rooms \ {id}
        /\ \A q \in DOMAIN first.rooms : first.rooms[q] = rooms[q]
        /\ ~second.ok
        /\ second.rooms = first.rooms
        /\ deleteRooms(rooms, id).status = (IF hasRoom(rooms, id) THEN 204 ELSE 404)
        /\ deleteRooms(rooms, id).rooms = first.rooms

C16_Witness ==
  /\ last.op = "DELETE /rooms/:id"
  /\ last.status = 204
  /\ \E r \in DOMAIN rooms : rooms[r].players # <<>>

\* C17: a join through POST /rooms/:id/join emits nothing and leaves every
\* connection's binding and subscriptions as they were, while a 201 appends
\* the new participant to the room; no binding ever holds a participant
\* admitted that way, no leave or disconnect removes one, and every
\* room:players broadcast for its room lists it.
restMembers(rs, roomId) ==
  {rs[roomId].players[i].id : i \in 1..Len(rs[roomId].players)}
    \cap {p \in 1..Len(admittedBy) : admittedBy[p] = 0}

C17_RestJoinState ==
  /\ last.op = "POST /rooms/:id/join" => last.out = <<>>
  /\ \A s \in Sockets :
       sock[s].playerId # 0 => admittedBy[sock[s].playerId] # 0
  /\ \A r \in DOMAIN rooms, s \in Sockets :
       live(s) =>
         /\ restMembers(rooms, r) \subseteq restMembers(roomLeave(rooms, sock, s).rooms, r)
         /\ restMembers(rooms, r) \subseteq restMembers(disconnect(rooms, sock, s).rooms, r)
  /\ \A i \in 1..Len(last.out) :
       isPlayersEvent(last.out[i]) =>
         restMembers(rooms, last.out[i].roomId)
           \subseteq {last.out[i].players[k].id :
                        k \in 1..Len(last.out[i].players)}

C17_RestJoinStep ==
  last'.op = "POST /rooms/:id/join" =>
    /\ sock' = sock
    /\ last'.out = <<>>
    /\ last'.status = 201 =>
         \E r \in DOMAIN rooms :
           /\ Len(rooms'[r].players) = Len(rooms[r].players) + 1
           /\ rooms'[r].players[Len(rooms'[r].players)].id = nextPlayerId
           /\ admittedBy'[nextPlayerId] = 0
    /\ last'.status # 201 => rooms' = rooms

C17_RestJoinIsSilent == []C17_RestJoinState /\ [][C17_RestJoinStep]_vars

C17_Witness ==
  /\ last.op = "room:join"
  /\ Len(last.out) = 2
  /\ Len(last.out[2].players) = 2
  /\ admittedBy[last.out[2].players[1].id] = 0
  /\ \A s \in Sockets : sock[s].playerId # last.out[2].players[1].id

\* C18: a connection's binding is one (roomId, participantId) pair, both
\* present or both absent, and no two live connections hold the same
\* participant id.
C18_OneBindingPerParticipant ==
  /\ \A s \in Sockets : (sock[s].roomId = 0) <=> (sock[s].playerId = 0)
  /\ \A s, t \in Sockets :
       (s # t /\ live(s) /\ live(t) /\ bound(s) /\ bound(t)) =>
         sock[s].playerId # sock[t].playerId

C18_Witness ==
  \A s \in Sockets : live(s) /\ bound(s)

\* C19: no join, leave or disconnect adds or removes a room; a room whose
\* last member leaves or disconnects stays in the registry with an empty
\* member sequence and admits a later join under the departed name.
C19_OnlyCreateAndDeleteChangeRooms ==
  /\ \A id \in RoomIds, n \in PlayerNamePayloads :
       DOMAIN postJoin(rooms, nextPlayerId, id, n).rooms = DOMAIN rooms
  /\ \A s \in Sockets :
       live(s) =>
         /\ \A roomId \in RoomIdPayloads, n \in PlayerNamePayloads :
              DOMAIN roomJoin(rooms, sock, nextPlayerId, s, roomId, n).rooms
                = DOMAIN rooms
         /\ DOMAIN roomLeave(rooms, sock, s).rooms = DOMAIN rooms
         /\ DOMAIN disconnect(rooms, sock, s).rooms = DOMAIN rooms
         /\ (isMember(rooms, sock[s].roomId, sock[s].playerId)
               /\ Len(rooms[sock[s].roomId].players) = 1) =>
              LET roomId == sock[s].roomId
                  name == rooms[roomId].players[1].name
                  l == roomLeave(rooms, sock, s).rooms
                  d == disconnect(rooms, sock, s).rooms
              IN  /\ hasRoom(l, roomId) /\ l[roomId].players = <<>>
                  /\ hasRoom(d, roomId) /\ d[roomId].players = <<>>
                  /\ addPlayer(l, nextPlayerId, roomId, name).error = ""
                  /\ addPlayer(d, nextPlayerId, roomId, name).player.name = name

C19_Witness ==
  /\ last.op = "room:join"
  /\ Len(last.out) = 2
  /\ last.out[1].player.id = 2
  /\ last.out[2].players = <<last.out[1].player>>
  /\ nextRoomId = 2
  /\ admittedBy = <<last.s, last.s>>

\* C20: for every room, the live connections subscribed to its broadcast
\* group are exactly the live connections whose binding names that room.
C20_SubscribersAreTheBound ==
  \A r \in RoomIds :
    {s \in Sockets : live(s) /\ r \in sock[s].groups}
      = {s \in Sockets : live(s) /\ sock[s].roomId = r}

\* C21: once a connection has disconnected, no participant it admitted is a
\* member of any room, also when it had sent a second successful room:join
\* while bound.
C21_NoMemberOfClosedConnection ==
  \A s \in Sockets :
    sock[s].status = "closed" =>
      \A r \in DOMAIN rooms : \A i \in 1..Len(rooms[r].players) :
        admittedBy[rooms[r].players[i].id] # s

\* C22: a room:leave from a bound connection removes its participant, clears
\* the binding, takes the connection out of the room's group, and emits the
\* room:players broadcast (only when the room exists) and then room:left to
\* the leaver; room:left is emitted also when the room has been deleted.
C22_LeaveEffects ==
  /\ \A s \in Sockets :
       (live(s) /\ bound(s)) =>
         LET roomId == sock[s].roomId
             l == roomLeave(rooms, sock, s)
         IN  /\ ~isMember(l.rooms, roomId, sock[s].playerId)
             /\ l.sock[s].roomId = 0 /\ l.sock[s].playerId = 0
             /\ roomId \notin l.sock[s].groups
             /\ l.out[Len(l.out)] = leftEvent(s, roomId)
             /\ hasRoom(rooms, roomId) =>
                  /\ Len(l.out) = 2
                  /\ isPlayersEvent(l.out[1])
                  /\ l.out[1].roomId = roomId
             /\ ~hasRoom(rooms, roomId) =>
                  /\ l.out = <<leftEvent(s, roomId)>>
                  /\ l.rooms = rooms
  /\ (last.op = "room:leave" /\ last.out # <<>>) =>
       /\ last.out[Len(last.out)].ev = "room:left"
       /\ last.out[Len(last.out)].to = {last.s}
       /\ \A i \in 1..(Len(last.out) - 1) : isPlayersEvent(last.out[i])
       /\ ~bound(last.s)
       /\ last.out[Len(last.out)].roomId \notin sock[last.s].groups

C22_Witness ==
  /\ last.op = "room:leave"
  /\ Len(last.out) = 1
  /\ last.out[1].ev = "room:left"
  /\ ~hasRoom(rooms, last.out[1].roomId)

\* C23: a successful room:join emits room:joined to the sender and then one
\* room:players broadcast; the sender, subscribed and bound by then, is among
\* the broadcast's recipients, and the list ends with the new participant.
C23_JoinEmitsJoinedThenPlayers ==
  /\ \A s \in Sockets, roomId \in RoomIdPayloads, n \in PlayerNamePayloads :
       LET r == roomJoin(rooms, sock, nextPlayerId, s, roomId, n)
       IN  (live(s) /\ r.player # NoPlayer) =>
             /\ roomId \in r.sock[s].groups
             /\ r.sock[s].roomId = roomId
             /\ r.sock[s].playerId = r.player.id
             /\ Len(r.out) = 2
             /\ r.out[1] = joinedEvent(s, roomId, r.player)
             /\ isPlayersEvent(r.out[2])
             /\ s \in r.out[2].to
             /\ r.out[2].to
                  = {c \in Sockets : c = s \/ roomId \in sock[c].groups}
             /\ r.out[2].players # <<>>
             /\ r.out[2].players[Len(r.out[2].players)] = r.player
  /\ (last.op = "room:join" /\ Len(last.out) = 2) =>
       /\ last.out[1].ev = "room:joined"
       /\ last.out[1].to = {last.s}
       /\ last.s \in last.out[2].to
       /\ last.out[2].players[Len(last.out[2].players)] = last.out[1].player
       /\ sock[last.s].playerId = last.out[1].player.id
       /\ sock[last.s].roomId = last.out[1].roomId

C23_Witness ==
  /\ last.op = "room:join"
  /\ Len(last.out) = 2
  /\ last.out[2].to = Sockets
  /\ Len(last.out[2].players) = 2

\* C24: disconnecting a connection whose binding names a deleted room, or a
\* participant that is no longer a member, changes nothing in the registry,
\* emits no error and nothing to the closing connection, and emits no
\* broadcast at all when the room is missing.
C24_DisconnectOnMissingState ==
  /\ \A s \in Sockets :
       (live(s) /\ bound(s)) =>
         LET gone == removePlayer(rooms, sock[s].roomId, sock[s].playerId).rooms
             d == disconnect(gone, sock, s)
         IN  /\ d.rooms = gone
             /\ \A i \in 1..Len(d.out) :
                  isPlayersEvent(d.out[i]) /\ s \notin d.out[i].to
             /\ ~hasRoom(gone, sock[s].roomId) => d.out = <<>>
  /\ \A s \in Sockets :
       (live(s) /\ bound(s) /\ ~hasRoom(rooms, sock[s].roomId)) =>
         /\ disconnect(rooms, sock, s).rooms = rooms
         /\ disconnect(rooms, sock, s).out = <<>>

C24_Witness ==
  /\ last.op = "disconnect"
  /\ last.out = <<>>
  /\ bound(last.s)
  /\ ~hasRoom(rooms, sock[last.s].roomId)
  /\ rooms # <<>>

withName(rs, roomId, n) ==
  {i \in 1..Len(rs[roomId].players) :
     sameName(rs[roomId].players[i].name, trim(n))}

otherRoomsSame(rs1, rs2, roomId) ==
  \A q \in DOMAIN rs1 :
    q # roomId => (q \in DOMAIN rs2 /\ rs2[q].players = rs1[q].players)

\* C25: two pending joins for one room, one by REST and one by room:join or
\* both by room:join from different connections, handled in either order:
\* with the same case-insensitive name the first is admitted and the second
\* gets NameTaken, leaving exactly one member of that name; with different
\* names both are admitted with distinct ids.
C25_RacingJoins ==
  \A roomId \in DOMAIN rooms, n1 \in ValidNames, n2 \in ValidNames :
    (~collides(rooms, roomId, n1) /\ ~collides(rooms, roomId, n2)) =>
      /\ \A s \in Sockets :
           live(s) =>
             LET a1 == postJoin(rooms, nextPlayerId, roomId, n1)
                 a2 == roomJoin(a1.rooms, sock, nextPlayerId + 1, s, roomId, n2)
                 b1 == roomJoin(rooms, sock, nextPlayerId, s, roomId, n2)
                 b2 == postJoin(b1.rooms, nextPlayerId + 1, roomId, n1)
             IN  /\ a1.status = 201 /\ b1.player # NoPlayer
                 /\ sameName(trim(n1), trim(n2)) =>
                      /\ a2.out = <<errorEvent(s, "Name taken", "")>>
                      /\ b2.status = 409
                      /\ a2.rooms = a1.rooms /\ b2.rooms = b1.rooms
                      /\ Cardinality(withName(a2.rooms, roomId, n1)) = 1
                      /\ Cardinality(withName(b2.rooms, roomId, n1)) = 1
                 /\ ~sameName(trim(n1), trim(n2)) =>
                      /\ a2.player # NoPlayer /\ b2.status = 201
                      /\ a1.player.id # a2.player.id
                      /\ b1.player.id # b2.player.id
                      /\ isMember(a2.rooms, roomId, a1.player.id)
                      /\ isMember(a2.rooms, roomId, a2.player.id)
                      /\ isMember(b2.rooms, roomId, b1.player.id)
                      /\ isMember(b2.rooms, roomId, b2.player.id)
      /\ \A s \in Sockets, t \in Sockets :
           (s # t /\ live(s) /\ live(t)) =>
             LET a1 == roomJoin(rooms, sock, nextPlayerId, s, roomId, n1)
                 a2 == roomJoin(a1.rooms, a1.sock, nextPlayerId + 1,
                                t, roomId, n2)
             IN  /\ a1.player # NoPlayer
                 /\ sameName(trim(n1), trim(n2)) =>
                      /\ a2.out = <<errorEvent(t, "Name taken", "")>>
                      /\ a2.rooms = a1.rooms
                      /\ Cardinality(withName(a2.rooms, roomId, n1)) = 1
                 /\ ~sameName(trim(n1), trim(n2)) =>
                      /\ a2.player # NoPlayer
                      /\ a1.player.id # a2.player.id
                      /\ isMember(a2.rooms, roomId, a1.player.id)
                      /\ isMember(a2.rooms, roomId, a2.player.id)

C25_Witness ==
  /\ last.op = "room:join"
  /\ last.out = <<errorEvent(last.s, "Name taken", "")>>
  /\ \E r \in DOMAIN rooms :
       /\ Len(rooms[r].players) = 2
       /\ admittedBy[rooms[r].players[2].id] = 0
       /\ admittedBy[rooms[r].players[1].id] # 0
       /\ ~sameName(rooms[r].players[1].name, rooms[r].players[2].name)

\* C26: a join, leave, disconnect or room deletion that concerns one room
\* leaves the member sequence of every other room as it was, and a name held
\* in one room can still be admitted to another room.
C26_OtherRoomsUntouched ==
  /\ \A roomId \in RoomIdPayloads, n \in PlayerNamePayloads :
       /\ otherRoomsSame(rooms,
            addPlayer(rooms, nextPlayerId, roomId, n).rooms, roomId)
       /\ otherRoomsSame(rooms,
            postJoin(rooms, nextPlayerId, roomId, n).rooms, roomId)
       /\ \A s \in Sockets :
            live(s) =>
              otherRoomsSame(rooms,
                roomJoin(rooms, sock, nextPlayerId, s, roomId, n).rooms, roomId)
  /\ \A s \in Sockets :
       live(s) =>
         /\ otherRoomsSame(rooms, roomLeave(rooms, sock, s).rooms,
                           sock[s].roomId)
         /\ otherRoomsSame(rooms, disconnect(rooms, sock, s).rooms,
                           sock[s].roomId)
  /\ \A roomId \in RoomIds, playerId \in 1..nextPlayerId :
       otherRoomsSame(rooms, removePlayer(rooms, roomId, playerId).rooms,
                      roomId)
  /\ \A roomId \in RoomIds :
       /\ otherRoomsSame(rooms, deleteRoom(rooms, roomId).rooms, roomId)
       /\ otherRoomsSame(rooms, deleteRooms(rooms, roomId).rooms, roomId)
  /\ \A r1 \in DOMAIN rooms, r2 \in DOMAIN rooms, n \in ValidNames :
       (r1 # r2 /\ collides(rooms, r1, n) /\ ~collides(rooms, r2, n)) =>
         LET a == addPlayer(rooms, nextPlayerId, r2, n)
         IN  /\ a.error = ""
             /\ a.rooms[r1] = rooms[r1]
             /\ collides(a.rooms, r1, n) /\ collides(a.rooms, r2, n)

C26_Witness ==
  \E r1 \in DOMAIN rooms, r2 \in DOMAIN rooms :
    /\ r1 # r2
    /\ Len(rooms[r1].players) = 1
    /\ Len(rooms[r2].players) = 1
    /\ sameName(rooms[r1].players[1].name, rooms[r2].players[1].name)

\* C27: the room:players broadcast of a room:leave goes to exactly the
\* connections still subscribed to the room after the leaver has been
\* unsubscribed; the leaver is not a recipient and receives only room:left.
C27_LeaverGetsOnlyLeft ==
  /\ \A s \in Sockets :
       (live(s) /\ bound(s)) =>
         LET roomId == sock[s].roomId
             l == roomLeave(rooms, sock, s)
         IN  /\ \A i \in 1..Len(l.out) :
                  isPlayersEvent(l.out[i]) =>
                    /\ s \notin l.out[i].to
                    /\ l.out[i].to
                         = {c \in Sockets \ {s} : roomId \in sock[c].groups}
                    /\ l.out[i].to = subscribers(l.sock, roomId)
             /\ \A i \in 1..Len(l.out) :
                  s \in l.out[i].to => l.out[i] = leftEvent(s, roomId)
  /\ last.op = "room:leave" =>
       \A i \in 1..Len(last.out) :
         last.s \in last.out[i].to => last.out[i].ev = "room:left"

C27_Witness ==
  /\ last.op = "room:leave"
  /\ Len(last.out) = 2
  /\ isPlayersEvent(last.out[1])
  /\ last.out[1].to # {}
  /\ last.s \notin last.out[1].to
  /\ Len(last.out[1].players) = 1

====
